---- MODULE Spec2Model ----
(***************************************************************************)
(* Token-usage dashboard: the daily report (token_usage_report.main), the  *)
(* historical backfill (fetch_historical_data) and the JSON store they     *)
(* share, with the pure helpers they are built from.                       *)
(*                                                                         *)
(* Numbers.  Money and prices are integers (a fixed small unit); quotients *)
(* computed by Python's true division are kept exact as [num, den] pairs.  *)
(* Time is counted in days; a day d spans the second range                 *)
(* [d * DayLen, (d + 1) * DayLen].  TLC has 32-bit integers, so the        *)
(* millisecond threshold 1e12 of the source is scaled down: what matters   *)
(* is that every second-valued timestamp of the model is below it and      *)
(* every millisecond-valued one above it.                                  *)
(***************************************************************************)
EXTENDS Integers, Sequences, FiniteSets, TLC

VARIABLES
    store,      \* data/token_usage.json: day label -> DayRecord
    io_log,     \* the loads and saves of the store file by the runs in memory
    today,      \* the current UTC day (now_utc(), day granularity)
    pricing,    \* the file config/moonshot_pricing.json
    runs,       \* number of runs started so far
    r_pc,       \* daily report: "idle", "loop", "save", "done", "failed"
    r_data,     \* daily report: the in-memory dict `data`
    r_idx,      \* daily report: index of the next period (1 yesterday, 2 today)
    r_now,      \* daily report: the day captured by now_utc() at the start
    r_loaded,   \* daily report: what load_existing_data returned
    r_last,     \* daily report: the answers its latest iteration got
    r_got,      \* daily report: label -> the answers the iteration for it got
    r_exit,     \* daily report: what ended it ("none", "ok", or the exception)
    b_pc,       \* backfill: "idle", "loop", "save", "done", "failed"
    b_data,     \* backfill: the in-memory dict `data`
    b_ago,      \* backfill: the loop variable days_ago
    b_now,      \* backfill: the day captured by now_utc() at the start
    b_loaded,   \* backfill: what load_existing_data returned
    b_fetched,  \* backfill: labels for which a fetch was issued in this run
    b_built,    \* backfill: labels whose record was built in this run
    b_last,     \* backfill: the answers its latest fetching iteration got
    b_exit,     \* backfill: what ended it ("none", "ok", or the exception)
    n_pc,       \* notifier: "idle", "report" (waiting for its report), "done"
    n_sent,     \* notifier: the messages handed to send_message, in order
    n_now,      \* notifier: the day its now_utc() returned
    n_exit,     \* notifier: its exit code, once it is done
    fn,         \* pure-function harness: which function is exercised
    pin,        \* pure-function harness: its input
    pout        \* pure-function harness: its result

reportVars == <<r_pc, r_data, r_idx, r_now, r_loaded, r_last, r_got, r_exit>>

backfillVars == <<b_pc, b_data, b_ago, b_now, b_loaded, b_fetched, b_built,
                  b_last, b_exit>>

envVars == <<today, pricing>>

notifyVars == <<n_pc, n_sent, n_now, n_exit>>

pureVars == <<fn, pin, pout>>

vars == <<store, io_log, runs, envVars, reportVars, backfillVars, notifyVars, pureVars>>

(***************************************************************************)
(* Bounds of the model                                                     *)
(***************************************************************************)
\* days covered by one backfill run (the source walks range(6, -1, -1))
BackfillDays == 3
\* runs (daily report or backfill) started in one behaviour
MaxRuns == 2
\* atoms in a cost line item
MaxLineLen == 5
\* sessions the session CLI lists
MaxSessions == 3
\* seconds in a day, scaled
DayLen == 10

(***************************************************************************)
(* Program constants                                                       *)
(***************************************************************************)
\* `updated_at > 1e12`, scaled to TLC's integers
MsThreshold == 1000
\* `updated_at / 1000`
MsPerSec == 1000
\* int(total_tokens * 0.9), int(total_tokens * 0.1): tenths
InputTenths == 9
OutputTenths == 1

(***************************************************************************)
(* Python dicts as functions with a finite domain                          *)
(***************************************************************************)
EmptyDict == [k \in {} |-> 0]

\* d.get(k, default)
Get(d, k, default) == IF k \in DOMAIN d THEN d[k] ELSE default

\* mutant: d.setdefault(k, v), which keeps the value of a key d has
Put_KeepsExisting(d, k, v) ==
    [x \in (DOMAIN d) \cup {k} |-> IF x \in DOMAIN d THEN d[x] ELSE v]

\* d[k] = v
Put(d, k, v) == [x \in (DOMAIN d) \cup {k} |-> IF x = k THEN v ELSE d[x]]

\* {**a, **b}
DictUnion(a, b) ==
    [x \in (DOMAIN a) \cup (DOMAIN b) |-> IF x \in DOMAIN b THEN b[x] ELSE a[x]]

\* sum(v[fld] for v in d.values()), over the keys S of d
RECURSIVE SumField(_, _, _)
SumField(d, S, fld) ==
    IF S = {} THEN 0
    ELSE LET k == CHOOSE x \in S : TRUE
         IN  d[k][fld] + SumField(d, S \ {k}, fld)

(***************************************************************************)
(* Results of calls that may raise                                         *)
(***************************************************************************)
Ok(v) == [kind |-> "ok", val |-> v]
Raised(exc) == [kind |-> exc, val |-> EmptyDict]

(***************************************************************************)
(* Exact quotients; Python's None                                          *)
(***************************************************************************)
Quot(n, d) == [kind |-> "num", num |-> n, den |-> d]
Zero == Quot(0, 1)
None == [kind |-> "None", num |-> 0, den |-> 1]
ZeroDivisionError == [kind |-> "ZeroDivisionError", num |-> 0, den |-> 1]

\* a / b
PyDiv(a, b) == IF b = 0 THEN ZeroDivisionError ELSE Quot(a, b)

\* equality of two quotients as numbers
SameNumber(p, q) == p.kind = "num" /\ q.kind = "num" /\ p.num * q.den = q.num * p.den

(***************************************************************************)
(* Strings.  TLA+ strings are atoms, so a text that the code splits or     *)
(* searches is a sequence of atoms: "," is the separator, " " is white     *)
(* space, every other atom is a word.                                      *)
(***************************************************************************)
\* str.lower() on one atom
LowerAtom(a) ==
    CASE a = "Cached" -> "cached"
      [] a = "Input" -> "input"
      [] a = "Output" -> "output"
      [] OTHER -> a

\* str.lower()
Lower(s) == [i \in 1..Len(s) |-> LowerAtom(s[i])]

\* `w in s` for a word w
Contains(s, w) == \E i \in 1..Len(s) : s[i] = w

\* str.split(",")
RECURSIVE Split(_)
Split(s) ==
    IF s = <<>> THEN << <<>> >>
    ELSE LET rest == Split(Tail(s))
         IN  IF Head(s) = "," THEN << <<>> >> \o rest
             ELSE << <<Head(s)>> \o Head(rest) >> \o Tail(rest)

RECURSIVE LStrip(_)
LStrip(s) == IF s # <<>> /\ Head(s) = " " THEN LStrip(Tail(s)) ELSE s

RECURSIVE RStrip(_)
RStrip(s) ==
    IF s # <<>> /\ s[Len(s)] = " " THEN RStrip(SubSeq(s, 1, Len(s) - 1)) ELSE s

\* str.strip()
Strip(s) == RStrip(LStrip(s))

\* the text of a field as one string: the word itself for a one-word field
Text(s) == IF Len(s) = 1 THEN s[1] ELSE ToString(s)

(***************************************************************************)
(* parse_line_item                                                         *)
(***************************************************************************)
\* [p.strip() for p in line_item.split(",") if p.strip()]
Parts(line_item) ==
    LET fields == Split(line_item)
        stripped == [i \in 1..Len(fields) |-> Strip(fields[i])]
    IN  SelectSeq(stripped, LAMBDA p : p # <<>>)

\* (None, None)
ParseNone == [model |-> <<>>, metric |-> "None"]

\* mutant: "input" is looked for before "cached"
ClassifyMetric_InputFirst(metric_candidate) ==
    IF Contains(metric_candidate, "input") THEN "input"
    ELSE IF Contains(metric_candidate, "cached") THEN "cached"
    ELSE IF Contains(metric_candidate, "output") THEN "output"
    ELSE "other"

\* the if/elif chain over metric_candidate
ClassifyMetric(metric_candidate) ==
    IF Contains(metric_candidate, "cached") THEN "cached"
    ELSE IF Contains(metric_candidate, "input") THEN "input"
    ELSE IF Contains(metric_candidate, "output") THEN "output"
    ELSE "other"

parse_line_item(line_item) ==
    LET parts == Parts(line_item)
    IN  IF parts = <<>> THEN ParseNone
        ELSE [model |-> parts[1],
              metric |-> IF Len(parts) > 1 THEN ClassifyMetric(Lower(parts[2]))
                         ELSE "other"]

(***************************************************************************)
(* fetch_openai_usage.  The API's answer is the environment's: the rows of *)
(* all pages of both services, in order, or the error that ends the call.  *)
(***************************************************************************)
ZeroCounts ==
    [input_tokens |-> 0, output_tokens |-> 0, cached_tokens |-> 0, requests |-> 0]

\* the setdefault(...) argument of fetch_openai_usage and fetch_moonshot_usage
NewUsageEntry(model) ==
    [model |-> model, input_tokens |-> 0, output_tokens |-> 0,
     cached_tokens |-> 0, requests |-> 0, services |-> EmptyDict]

\* one result row accumulated into usage_by_model
UsageRowStep(acc, row) ==
    LET model == IF row.model = "" THEN "unknown" ELSE row.model
        entry == Get(acc, model, NewUsageEntry(model))
        svc == Get(entry.services, row.service, ZeroCounts)
        svc2 == [input_tokens |-> svc.input_tokens + row.input_tokens,
                 output_tokens |-> svc.output_tokens + row.output_tokens,
                 cached_tokens |-> svc.cached_tokens + row.input_cached_tokens,
                 requests |-> svc.requests + row.num_model_requests]
    IN  Put(acc, model,
            [model |-> model,
             input_tokens |-> entry.input_tokens + row.input_tokens,
             output_tokens |-> entry.output_tokens + row.output_tokens,
             cached_tokens |-> entry.cached_tokens + row.input_cached_tokens,
             requests |-> entry.requests + row.num_model_requests,
             services |-> Put(entry.services, row.service, svc2)])

RECURSIVE FoldUsage(_, _)
FoldUsage(acc, rows) ==
    IF rows = <<>> THEN acc ELSE FoldUsage(UsageRowStep(acc, Head(rows)), Tail(rows))

\* what a failed primary-provider call raises: load_admin_key and an
\* HTTPError raise SystemExit; any other urllib error is an Exception
PrimaryError(err) ==
    IF err \in {"NoAdminKey", "HTTPError"} THEN Raised("SystemExit")
    ELSE Raised("Exception")

fetch_openai_usage(resp) ==
    IF resp.err # "none" THEN PrimaryError(resp.err)
    ELSE Ok(FoldUsage(EmptyDict, resp.rows))

(***************************************************************************)
(* fetch_openai_costs                                                      *)
(***************************************************************************)
ZeroCost == [input |-> 0, output |-> 0, cached |-> 0, other |-> 0]

\* one cost row accumulated into totals
CostRowStep(acc, row) ==
    LET parsed == parse_line_item(Strip(row.line_item))
        model == Text(parsed.model)
        entry == Get(acc, model, ZeroCost)
    IN  IF parsed.model = <<>> \/ parsed.metric = "None" THEN acc
        ELSE Put(acc, model,
                 IF parsed.metric \in DOMAIN entry
                 THEN [entry EXCEPT ![parsed.metric] = @ + row.amount]
                 ELSE entry)

RECURSIVE FoldCosts(_, _)
FoldCosts(acc, rows) ==
    IF rows = <<>> THEN acc ELSE FoldCosts(CostRowStep(acc, Head(rows)), Tail(rows))

\* entry["total"] = input + output + cached + other
WithTotal(entry) ==
    [input |-> entry.input, output |-> entry.output, cached |-> entry.cached,
     other |-> entry.other,
     total |-> entry.input + entry.output + entry.cached + entry.other]

fetch_openai_costs(resp) ==
    IF resp.err # "none" THEN PrimaryError(resp.err)
    ELSE LET totals == FoldCosts(EmptyDict, resp.rows)
         IN  Ok([m \in DOMAIN totals |-> WithTotal(totals[m])])

(***************************************************************************)
(* attach_cost_rates                                                       *)
(***************************************************************************)
\* mutant: a rate of 0.0 where there are no tokens
rate_ZeroWithoutTokens(cost_entry, kind, tokens) ==
    IF tokens # 0 THEN PyDiv(Get(cost_entry, kind, 0), tokens) ELSE Zero

\* the inner function rate(kind, tokens)
rate(cost_entry, kind, tokens) ==
    IF tokens # 0 THEN PyDiv(Get(cost_entry, kind, 0), tokens) ELSE None

\* the rates dict of one model
Rates(cost_entry, usage_entry) ==
    [input |-> rate(cost_entry, "input", Get(usage_entry, "input_tokens", 0)),
     output |-> rate(cost_entry, "output", Get(usage_entry, "output_tokens", 0)),
     cached |-> rate(cost_entry, "cached", Get(usage_entry, "cached_tokens", 0))]

\* the exception a rate computation raised, if any
RatesRaise(rates) == \E k \in DOMAIN rates : rates[k].kind = "ZeroDivisionError"

attach_cost_rates(costs, usage) ==
    LET rates == [m \in DOMAIN costs |-> Rates(costs[m], Get(usage, m, EmptyDict))]
    IN  IF \E m \in DOMAIN costs : RatesRaise(rates[m]) THEN Raised("ZeroDivisionError")
        ELSE Ok([m \in DOMAIN costs |-> Put(costs[m], "per_token", rates[m])])

(***************************************************************************)
(* fetch_moonshot_usage.  The session CLI's outcome is the environment's.  *)
(***************************************************************************)
moonshot_models ==
    {"kimi-k2", "kimi-k2-thinking", "kimi-k2.5",
     "moonshot/kimi-k2", "moonshot/kimi-k2-thinking", "moonshot/kimi-k2.5"}

\* model.lower(), over the model names of the model
LowerName(model) == IF model = "Moonshot/Kimi-K2" THEN "moonshot/kimi-k2" ELSE model

\* `m in s`, over the model names of the model
HasSubstring(s, m) ==
    \/ s = m
    \/ s = "moonshot/kimi-k2" /\ m = "kimi-k2"
    \/ s = "kimi-k2-thinking" /\ m = "kimi-k2"

\* any(m in model.lower() for m in moonshot_models)
is_moonshot(model) == \E m \in moonshot_models : HasSubstring(LowerName(model), m)

\* model.replace("moonshot/", ""), over the model names of the model
normalized_model(model) == IF model = "moonshot/kimi-k2" THEN "kimi-k2" ELSE model

\* updated_at after `if updated_at > 1e12: updated_at = updated_at / 1000`
NormalizeTs(updated_at) ==
    IF updated_at > MsThreshold THEN Quot(updated_at, MsPerSec) ELSE Quot(updated_at, 1)

\* start_ts <= updated_at <= end_ts
InRange(ts, start_ts, end_ts) ==
    start_ts * ts.den <= ts.num /\ ts.num <= end_ts * ts.den

\* the `continue` of the timestamp check
SkippedByTime(updated_at, start_ts, end_ts) ==
    updated_at # 0 /\ ~InRange(NormalizeTs(updated_at), start_ts, end_ts)

\* int(total_tokens * 0.9), int(total_tokens * 0.1)
estimated_input(total_tokens) == (total_tokens * InputTenths) \div 10
estimated_output(total_tokens) == (total_tokens * OutputTenths) \div 10

\* a session that passed the filters, accumulated into usage_by_model
AddSession(acc, session) ==
    LET model == normalized_model(session.model)
        entry == Get(acc, model, NewUsageEntry(model))
    IN  Put(acc, model,
            [entry EXCEPT !.input_tokens = @ + estimated_input(session.totalTokens),
                          !.output_tokens = @ + estimated_output(session.totalTokens),
                          !.requests = @ + 1])

\* the loop over sessions; a session whose model is null raises on .lower()
RECURSIVE FoldSessions(_, _, _, _)
FoldSessions(acc, sessions, start_ts, end_ts) ==
    IF sessions = <<>> THEN Ok(acc)
    ELSE LET session == Head(sessions)
         IN  IF session.model = "null" THEN Raised("Exception")
             ELSE IF ~is_moonshot(session.model)
                     \/ SkippedByTime(session.updatedAt, start_ts, end_ts)
             THEN FoldSessions(acc, Tail(sessions), start_ts, end_ts)
             ELSE FoldSessions(AddSession(acc, session), Tail(sessions),
                               start_ts, end_ts)

\* mutant: an error at a session keeps what the other sessions accumulated
fetch_moonshot_usage_KeepsPartial(cli, start_ts, end_ts) ==
    IF cli.kind # "ok" THEN EmptyDict
    ELSE FoldSessions(EmptyDict,
                      SelectSeq(cli.sessions, LAMBDA x : x.model # "null"),
                      start_ts, end_ts).val

\* cli.kind: "ok", "nonzero" (returncode != 0), "raises" (the CLI is missing
\* or timed out), "badjson" (stdout is not JSON)
fetch_moonshot_usage(cli, start_ts, end_ts) ==
    IF cli.kind # "ok" THEN EmptyDict
    ELSE LET r == FoldSessions(EmptyDict, cli.sessions, start_ts, end_ts)
         IN  IF r.kind = "ok" THEN r.val ELSE EmptyDict

(***************************************************************************)
(* calculate_moonshot_costs, summarize                                     *)
(***************************************************************************)
\* p.get(kind): the price as a number, or None
PriceOrNone(p, kind) == IF kind \in DOMAIN p THEN Quot(p[kind], 1) ELSE None

calculate_moonshot_costs(usage, config) ==
    LET models == Get(config, "models", EmptyDict)
    IN  [m \in (DOMAIN models) \cap (DOMAIN usage) |->
            LET u == usage[m]
                p == Get(models[m], "pricing", EmptyDict)
                input_cost == Get(u, "input_tokens", 0) * Get(p, "input", 0)
                output_cost == Get(u, "output_tokens", 0) * Get(p, "output", 0)
                cached_cost == Get(u, "cached_tokens", 0) * Get(p, "cached", 0)
            IN  [input |-> input_cost, output |-> output_cost, cached |-> cached_cost,
                 total |-> input_cost + output_cost + cached_cost,
                 per_token |-> [input |-> PriceOrNone(p, "input"),
                                output |-> PriceOrNone(p, "output"),
                                cached |-> PriceOrNone(p, "cached")]]]

summarize(usage) ==
    LET total_input == SumField(usage, DOMAIN usage, "input_tokens")
        total_output == SumField(usage, DOMAIN usage, "output_tokens")
        total_requests == SumField(usage, DOMAIN usage, "requests")
        tokens == total_input + total_output
    IN  [tokens |-> tokens, requests |-> total_requests,
         avg_tokens_per_request |->
             IF total_requests # 0 THEN PyDiv(tokens, total_requests) ELSE Zero,
         input |-> total_input, output |-> total_output]

(***************************************************************************)
(* Time                                                                    *)
(***************************************************************************)
\* bucket_label: the label of a day
bucket_label(day) == day

\* int(start_dt.timestamp()), int(end_dt.timestamp()) of a day
StartTs(day) == day * DayLen
EndTs(day) == (day + 1) * DayLen

\* the day on which a behaviour starts (every label it uses is positive), and
\* the day on which it ends: one midnight passes
FirstDay == BackfillDays + 1
LastDay == FirstDay + 1

(***************************************************************************)
(* The environment: what the providers, the session CLI and the pricing    *)
(* file can answer.                                                        *)
(***************************************************************************)
UsageRow(service, model, input, cached, output, requests) ==
    [service |-> service, model |-> model, input_tokens |-> input,
     input_cached_tokens |-> cached, output_tokens |-> output,
     num_model_requests |-> requests]

\* no activity
UsageNone == [err |-> "none", rows |-> <<>>]
\* one model, two pages
UsageGpt ==
    [err |-> "none",
     rows |-> << UsageRow("completions", "gpt-4", 10, 2, 5, 2),
                 UsageRow("embeddings", "gpt-4", 3, 0, 0, 1) >>]
\* the primary provider reports a model name the secondary provider uses too
UsageBoth ==
    [err |-> "none",
     rows |-> << UsageRow("completions", "gpt-4", 10, 2, 5, 2),
                 UsageRow("completions", "kimi-k2", 4, 1, 1, 1) >>]
UsageError(err) == [err |-> err, rows |-> <<>>]

CostRow(line_item, amount) == [line_item |-> line_item, amount |-> amount]

CostsNone == [err |-> "none", rows |-> <<>>]
CostsGpt ==
    [err |-> "none",
     rows |-> << CostRow(<<"gpt-4", ",", " ", "Input">>, 30),
                 CostRow(<<"gpt-4", ",", " ", "cached", " ", "input">>, 4),
                 CostRow(<<"gpt-4", ",", " ", "output">>, 20),
                 CostRow(<<"kimi-k2", ",", " ", "input">>, 8),
                 CostRow(<<"gpt-4">>, 1),
                 CostRow(<<" ", ",">>, 5) >>]
CostsError(err) == [err |-> err, rows |-> <<>>]

Session(model, updatedAt, totalTokens) ==
    [model |-> model, updatedAt |-> updatedAt, totalTokens |-> totalTokens]

CliFailed(kind) == [kind |-> kind, sessions |-> <<>>]
CliOk(sessions) == [kind |-> "ok", sessions |-> sessions]

\* the sessions the CLI lists while day [start_ts, end_ts] is asked for: two
\* Moonshot sessions of that day (one stamped in milliseconds), one of another
\* provider, one of the day after
SessionsOfDay(start_ts, end_ts) ==
    << Session("gpt-4", start_ts + 1, 40),
       Session("moonshot/kimi-k2", (start_ts + 1) * MsPerSec, 25),
       Session("kimi-k2-thinking", start_ts + 2, 12),
       Session("kimi-k2", end_ts + 1, 30) >>

\* the same list followed by a record whose model is null
SessionsThenBad(start_ts, end_ts) ==
    SessionsOfDay(start_ts, end_ts) \o << Session("null", start_ts, 10) >>

Scenario(usage, costs, cli) == [usage |-> usage, costs |-> costs, cli |-> cli]

\* the answers one loop iteration can get for the window [start_ts, end_ts]
Scenarios(start_ts, end_ts) ==
    LET good == CliOk(SessionsOfDay(start_ts, end_ts))
        bad == CliOk(SessionsThenBad(start_ts, end_ts))
    IN  { Scenario(UsageGpt, CostsGpt, CliFailed("nonzero")),
          Scenario(UsageGpt, CostsGpt, CliFailed("badjson")),
          Scenario(UsageGpt, CostsGpt, bad),
          Scenario(UsageBoth, CostsGpt, good),
          Scenario(UsageNone, CostsNone, CliFailed("nonzero")),
          Scenario(UsageError("HTTPError"), CostsGpt, good),
          Scenario(UsageError("NoAdminKey"), CostsGpt, good),
          Scenario(UsageError("URLError"), CostsGpt, good),
          Scenario(UsageGpt, CostsError("HTTPError"), good),
          Scenario(UsageGpt, CostsError("URLError"), good) }

\* config/moonshot_pricing.json: one model priced without a cached price, one
\* priced model that is never used
PricingFile ==
    [present |-> TRUE,
     json |-> [models |->
                 [m \in {"kimi-k2", "kimi-k2.5"} |->
                     [pricing |-> IF m = "kimi-k2"
                                  THEN [k \in {"input", "output"} |->
                                           IF k = "input" THEN 2 ELSE 3]
                                  ELSE [k \in {"input", "output", "cached"} |-> 1]]]]]

\* load_moonshot_pricing
load_moonshot_pricing(file) ==
    IF file.present THEN file.json ELSE [models |-> EmptyDict]

(***************************************************************************)
(* One iteration of the loop of main                                       *)
(***************************************************************************)
\* combined_usage = {**openai_usage, **moonshot_usage}
ReportCombineUsage(openai_usage, moonshot_usage) ==
    DictUnion(openai_usage, moonshot_usage)

\* the value assigned to data[label]
ReportRecord(day, openai_usage, openai_costs, moonshot_usage, moonshot_costs) ==
    LET combined_usage == ReportCombineUsage(openai_usage, moonshot_usage)
        combined_costs == DictUnion(openai_costs, moonshot_costs)
    IN  [start |-> StartTs(day), end |-> EndTs(day),
         usage |-> combined_usage, costs |-> combined_costs,
         summary |-> summarize(combined_usage),
         providers |->
             [openai |-> [usage |-> openai_usage, costs |-> openai_costs],
              moonshot |-> [usage |-> moonshot_usage, costs |-> moonshot_costs]]]

\* the body of `for label, period_start, period_end in periods`: Ok(record),
\* or what the first failing call raised
ReportIteration(day, sc, config) ==
    LET usage == fetch_openai_usage(sc.usage)
        costs == fetch_openai_costs(sc.costs)
        rated == attach_cost_rates(costs.val, usage.val)
        moonshot_usage == fetch_moonshot_usage(sc.cli, StartTs(day), EndTs(day))
        moonshot_costs == calculate_moonshot_costs(moonshot_usage, config)
    IN  IF usage.kind # "ok" THEN usage
        ELSE IF costs.kind # "ok" THEN costs
        ELSE IF rated.kind # "ok" THEN rated
        ELSE Ok(ReportRecord(day, usage.val, rated.val, moonshot_usage, moonshot_costs))

(***************************************************************************)
(* One iteration of the loop of fetch_historical_data                      *)
(***************************************************************************)
\* mutant: the backfill merges as the daily report does
BackfillCombineUsage_Overwrite(openai_usage, moonshot_usage) ==
    DictUnion(openai_usage, moonshot_usage)

\* combined_usage after the additive merge of moonshot_usage
BackfillCombineUsage(openai_usage, moonshot_usage) ==
    [m \in (DOMAIN openai_usage) \cup (DOMAIN moonshot_usage) |->
        IF m \in DOMAIN openai_usage /\ m \in DOMAIN moonshot_usage
        THEN [openai_usage[m] EXCEPT
                !.input_tokens = @ + Get(moonshot_usage[m], "input_tokens", 0),
                !.output_tokens = @ + Get(moonshot_usage[m], "output_tokens", 0),
                !.requests = @ + Get(moonshot_usage[m], "requests", 0)]
        ELSE IF m \in DOMAIN openai_usage THEN openai_usage[m]
        ELSE moonshot_usage[m]]

\* combined_costs: the OpenAI costs, then one entry per Moonshot model priced
\* by moonshot_pricing.get(model, {})
BackfillCombineCosts(openai_costs, moonshot_usage, config) ==
    LET priced == [m \in DOMAIN moonshot_usage |->
                     LET usage == moonshot_usage[m]
                         price == Get(config, m, EmptyDict)
                         input_cost == Get(usage, "input_tokens", 0) * Get(price, "input", 0)
                         output_cost == Get(usage, "output_tokens", 0) * Get(price, "output", 0)
                         cached_cost == Get(usage, "cached_tokens", 0) * Get(price, "cached", 0)
                     IN  [input |-> input_cost, output |-> output_cost,
                          cached |-> cached_cost,
                          total |-> input_cost + output_cost + cached_cost]]
    IN  DictUnion(openai_costs, priced)

\* the summary dict built inline by the backfill
BackfillSummary(combined_usage) ==
    LET total_tokens == SumField(combined_usage, DOMAIN combined_usage, "input_tokens")
                        + SumField(combined_usage, DOMAIN combined_usage, "output_tokens")
        total_requests == SumField(combined_usage, DOMAIN combined_usage, "requests")
    IN  [tokens |-> total_tokens, requests |-> total_requests,
         avg_tokens_per_request |->
             IF total_requests # 0 THEN PyDiv(total_tokens, total_requests) ELSE Zero]

\* mutant: the summary is taken before the Moonshot usage is merged in
BackfillRecord_SummaryBeforeMerge(day, openai_usage, openai_costs, moonshot_usage, config) ==
    [start |-> StartTs(day), end |-> EndTs(day),
     usage |-> BackfillCombineUsage(openai_usage, moonshot_usage),
     costs |-> BackfillCombineCosts(openai_costs, moonshot_usage, config),
     summary |-> BackfillSummary(openai_usage)]

\* the value assigned to data[label]
BackfillRecord(day, openai_usage, openai_costs, moonshot_usage, config) ==
    LET combined_usage == BackfillCombineUsage(openai_usage, moonshot_usage)
    IN  [start |-> StartTs(day), end |-> EndTs(day),
         usage |-> combined_usage,
         costs |-> BackfillCombineCosts(openai_costs, moonshot_usage, config),
         summary |-> BackfillSummary(combined_usage)]

\* the body of the try block: Ok(record), or what the first failing call raised
BackfillIteration(day, sc, config) ==
    LET usage == fetch_openai_usage(sc.usage)
        costs == fetch_openai_costs(sc.costs)
        moonshot_usage == fetch_moonshot_usage(sc.cli, StartTs(day), EndTs(day))
    IN  IF usage.kind # "ok" THEN usage
        ELSE IF costs.kind # "ok" THEN costs
        ELSE Ok(BackfillRecord(day, usage.val, costs.val, moonshot_usage, config))

\* `except Exception`: what the handler of the backfill catches
CaughtByBackfill(exc) == exc = "Exception"

(***************************************************************************)
(* The store file                                                          *)
(***************************************************************************)
\* mutant: the file is not read
load_existing_data_Nothing(file) == EmptyDict

\* load_existing_data: the file's content, {} when there is no file
load_existing_data(file) == file

\* save_data: the file's content after json.dump(data)
save_data(data) == data

\* mutant: main saves at the end of every iteration
FileAfterPeriod_Saved(file, data) == save_data(data)

\* the file after an iteration of the loop of main, which saves nothing
FileAfterPeriod(file, data) == file

\* mutant: no day is taken as present
AlreadyPresent_Never(label, data) == FALSE

\* `if label in data`
AlreadyPresent(label, data) == label \in DOMAIN data

(***************************************************************************)
(* format_day_report and the notifier's pure parts.  A formatted line is   *)
(* kept as the numbers and names it prints.                                *)
(***************************************************************************)
\* the product of two quotients
QMul(p, q) == Quot(p.num * q.num, p.den * q.den)

\* model.startswith("kimi-") or model.startswith("moonshot/"), over the model
\* names of the model
StartsWithMoonshot(model) == model \in moonshot_models

\* sum(c.get("total", 0) for c in costs.values()), over the keys S of costs
RECURSIVE SumTotals(_, _)
SumTotals(costs, S) ==
    IF S = {} THEN 0
    ELSE LET k == CHOOSE x \in S : TRUE
         IN  Get(costs[k], "total", 0) + SumTotals(costs, S \ {k})

\* requests / max((now - start).total_seconds() / 3600, 0.01), the clock
\* being read at the start of day now
RequestsPerHour(requests, start, now) ==
    LET elapsed == StartTs(now) - start
    IN  IF elapsed * 24 * 100 <= DayLen THEN Quot(requests * 100, 1)
        ELSE Quot(requests * DayLen, elapsed * 24)

\* Ok(lines), or KeyError when the summary lacks a field that is read
format_day_report(label, day_data, now, is_today) ==
    LET summary == day_data["summary"]
        costs == Get(day_data, "costs", EmptyDict)
        usage == Get(day_data, "usage", EmptyDict)
        openai_total ==
            SumTotals(costs, {m \in DOMAIN costs : ~StartsWithMoonshot(m)})
        moonshot_total ==
            SumTotals(costs, {m \in DOMAIN costs : StartsWithMoonshot(m)})
        total_cost == openai_total + moonshot_total
        requests == summary["requests"]
        cost_per_query == IF requests # 0 THEN PyDiv(total_cost, requests) ELSE Zero
    IN  IF requests # 0 /\ ("input" \notin DOMAIN summary \/ "output" \notin DOMAIN summary)
        THEN Raised("KeyError")
        ELSE Ok([label |-> label,
                 total_cost |-> total_cost,
                 openai_total |-> openai_total,
                 moonshot_total |-> moonshot_total,
                 projected_spend |->
                     IF is_today
                     THEN QMul(cost_per_query,
                               QMul(RequestsPerHour(requests, day_data["start"], now),
                                    Quot(24, 1)))
                     ELSE None,
                 cost_per_query |-> cost_per_query,
                 avg_input |-> IF requests # 0 THEN PyDiv(summary["input"], requests)
                               ELSE Zero,
                 avg_output |-> IF requests # 0 THEN PyDiv(summary["output"], requests)
                                ELSE Zero,
                 openai_models |-> {m \in DOMAIN usage : ~StartsWithMoonshot(m)},
                 moonshot_models |-> {m \in DOMAIN usage : StartsWithMoonshot(m)}])

\* "Token usage data not available for both days."
NotAvailable == [kind |-> "unavailable"]

\* Ok(message), or what format_day_report raised
build_message(data, now) ==
    LET today_label == bucket_label(now)
        yesterday_label == bucket_label(now - 1)
    IN  IF today_label \notin DOMAIN data \/ yesterday_label \notin DOMAIN data
        THEN Ok(NotAvailable)
        ELSE LET today_lines == format_day_report("Today", data[today_label], now, TRUE)
                 yesterday_lines ==
                     format_day_report("Yesterday", data[yesterday_label], now, FALSE)
             IN  IF today_lines.kind # "ok" THEN today_lines
                 ELSE IF yesterday_lines.kind # "ok" THEN yesterday_lines
                 ELSE Ok([kind |-> "summary", today |-> today_lines.val,
                          yesterday |-> yesterday_lines.val])

\* f"Token usage report failed:\n{report_proc.stderr.strip()}"
FailureMessage(stderr) == [kind |-> "failed", text |-> stderr]

\* what the report process leaves to the process that ran it: SystemExit
\* with a text exits 1 with the text on stderr, an uncaught exception exits 1
\* with its traceback on stderr
ReportProc(exit, last) ==
    IF exit = "ok" THEN [returncode |-> 0, stderr |-> ""]
    ELSE [returncode |-> 1,
          stderr |->
              IF exit # "SystemExit" THEN "Traceback"
              ELSE IF last.sc.usage.err = "NoAdminKey" THEN "Admin key not found"
              ELSE IF last.sc.usage.err = "HTTPError" THEN "OpenAI Usage API error"
              ELSE "OpenAI Costs API error"]

\* mutant: the notifier exits 0 after it reported the failure
notify_main_ExitsZero(report_proc, data, now) ==
    IF report_proc.returncode # 0
    THEN [sent |-> <<FailureMessage(report_proc.stderr)>>, exit |-> 0]
    ELSE [sent |-> <<build_message(data, now).val>>, exit |-> 0]

\* token_usage_notify.main once run_report has returned: the messages it
\* sends and its exit code (1 for an uncaught exception)
notify_main(report_proc, data, now) ==
    IF report_proc.returncode # 0
    THEN [sent |-> <<FailureMessage(report_proc.stderr)>>,
          exit |-> report_proc.returncode]
    ELSE LET message == build_message(data, now)
         IN  IF message.kind = "ok" THEN [sent |-> <<message.val>>, exit |-> 0]
             ELSE [sent |-> <<>>, exit |-> 1]

(***************************************************************************)
(* The processes.  A process that has ended keeps its last state until the *)
(* next run starts, so that the end of a run can be observed.              *)
(***************************************************************************)
Terminal == {"idle", "done", "failed"}

\* entries of io_log: a run of proc read the store file, or wrote it
Loaded(proc) == [op |-> "load", by |-> proc]
Saved(proc) == [op |-> "save", by |-> proc]

NotRun == [done |-> FALSE]

\* the answers sc got by the iteration for label
Last(label, sc) == [done |-> TRUE, label |-> label, sc |-> sc]

\* the memory of a daily report that has ended is gone
ReportForgotten ==
    /\ r_pc' = "idle"
    /\ r_data' = EmptyDict
    /\ r_idx' = 1
    /\ r_now' = 0
    /\ r_loaded' = EmptyDict
    /\ r_last' = NotRun
    /\ r_got' = EmptyDict
    /\ r_exit' = "none"

\* the memory of a notifier that has ended is gone
NotifyForgotten ==
    /\ n_pc' = "idle"
    /\ n_sent' = <<>>
    /\ n_now' = 0
    /\ n_exit' = 0

\* the memory of a backfill that has ended is gone
BackfillForgotten ==
    /\ b_pc' = "idle"
    /\ b_data' = EmptyDict
    /\ b_ago' = 0
    /\ b_now' = 0
    /\ b_loaded' = EmptyDict
    /\ b_fetched' = {}
    /\ b_built' = {}
    /\ b_last' = NotRun
    /\ b_exit' = "none"

\* the day of period idx of a daily report started on day now
PeriodDay(now, idx) == now - 2 + idx

\* main, up to data = load_existing_data()
ReportStart ==
    /\ fn = "none"
    /\ n_pc # "report"
    /\ r_pc \in Terminal
    /\ b_pc \in Terminal
    /\ runs < MaxRuns
    /\ runs' = runs + 1
    /\ r_pc' = "loop"
    /\ r_now' = today
    /\ r_idx' = 1
    /\ r_loaded' = load_existing_data(store)
    /\ r_data' = load_existing_data(store)
    /\ r_last' = NotRun
    /\ r_got' = EmptyDict
    /\ r_exit' = "none"
    /\ io_log' = <<Loaded("report")>>
    /\ BackfillForgotten
    /\ NotifyForgotten
    /\ UNCHANGED <<store, envVars, pureVars>>

\* main: one iteration of the loop over the two periods
ReportPeriod ==
    /\ r_pc = "loop"
    /\ LET day == PeriodDay(r_now, r_idx)
       IN  \E sc \in Scenarios(StartTs(day), EndTs(day)) :
             LET res == ReportIteration(day, sc, load_moonshot_pricing(pricing))
             IN  /\ r_last' = Last(bucket_label(day), sc)
                 /\ r_got' = Put(r_got, bucket_label(day), sc)
                 /\ IF res.kind = "ok"
                    THEN /\ r_data' = Put(r_data, bucket_label(day), res.val)
                         /\ r_idx' = r_idx + 1
                         /\ r_pc' = IF r_idx = 2 THEN "save" ELSE "loop"
                         /\ r_exit' = "none"
                         /\ store' = FileAfterPeriod(store, r_data')
                    ELSE /\ r_pc' = "failed"
                         /\ r_exit' = res.kind
                         /\ UNCHANGED <<store, r_data, r_idx>>
    /\ UNCHANGED <<io_log, runs, envVars, r_now, r_loaded, backfillVars, notifyVars,
                   pureVars>>

\* mutant: the save keeps the days the file holds and the run does not
ReportSave_KeepsOtherDays ==
    /\ r_pc = "save"
    /\ store' = save_data(DictUnion(store, r_data))
    /\ io_log' = Append(io_log, Saved("report"))
    /\ r_pc' = "done"
    /\ r_exit' = "ok"
    /\ UNCHANGED <<runs, envVars, r_data, r_idx, r_now, r_loaded, r_last, r_got,
                   backfillVars, notifyVars, pureVars>>

\* main: save_data(data) and the printing that follows it
ReportSave ==
    /\ r_pc = "save"
    /\ store' = save_data(r_data)
    /\ io_log' = Append(io_log, Saved("report"))
    /\ r_pc' = "done"
    /\ r_exit' = "ok"
    /\ UNCHANGED <<runs, envVars, r_data, r_idx, r_now, r_loaded, r_last, r_got,
                   backfillVars, notifyVars, pureVars>>

\* fetch_historical_data, up to now = now_utc()
BackfillStart ==
    /\ fn = "none"
    /\ n_pc # "report"
    /\ b_pc \in Terminal
    /\ r_pc \in Terminal
    /\ runs < MaxRuns
    /\ runs' = runs + 1
    /\ b_pc' = "loop"
    /\ b_now' = today
    /\ b_ago' = BackfillDays - 1
    /\ b_loaded' = load_existing_data(store)
    /\ b_data' = load_existing_data(store)
    /\ b_fetched' = {}
    /\ b_built' = {}
    /\ b_last' = NotRun
    /\ b_exit' = "none"
    /\ io_log' = <<Loaded("backfill")>>
    /\ ReportForgotten
    /\ NotifyForgotten
    /\ UNCHANGED <<store, envVars, pureVars>>

\* the loop header's step to the next days_ago
BackfillAdvance ==
    /\ b_ago' = IF b_ago = 0 THEN 0 ELSE b_ago - 1
    /\ b_pc' = IF b_ago = 0 THEN "save" ELSE "loop"
    /\ b_exit' = "none"

\* fetch_historical_data: one iteration of the loop over days_ago
BackfillDay ==
    /\ b_pc = "loop"
    /\ LET day == b_now - b_ago
           label == bucket_label(day)
       IN  IF AlreadyPresent(label, b_data)
           THEN /\ BackfillAdvance
                /\ UNCHANGED <<b_data, b_fetched, b_built, b_last>>
           ELSE \E sc \in Scenarios(StartTs(day), EndTs(day)) :
                  LET res == BackfillIteration(day, sc, load_moonshot_pricing(pricing))
                  IN  /\ b_fetched' = b_fetched \cup {label}
                      /\ b_last' = Last(label, sc)
                      /\ IF res.kind = "ok"
                         THEN /\ b_data' = Put(b_data, label, res.val)
                              /\ b_built' = b_built \cup {label}
                              /\ BackfillAdvance
                         ELSE IF CaughtByBackfill(res.kind)
                         THEN /\ BackfillAdvance
                              /\ UNCHANGED <<b_data, b_built>>
                         ELSE /\ b_pc' = "failed"
                              /\ b_exit' = res.kind
                              /\ UNCHANGED <<b_data, b_built, b_ago>>
    /\ UNCHANGED <<store, io_log, runs, envVars, b_now, b_loaded, reportVars,
                   notifyVars, pureVars>>

\* fetch_historical_data: save_data(data)
BackfillSave ==
    /\ b_pc = "save"
    /\ store' = save_data(b_data)
    /\ io_log' = Append(io_log, Saved("backfill"))
    /\ b_pc' = "done"
    /\ b_exit' = "ok"
    /\ UNCHANGED <<runs, envVars, b_data, b_ago, b_now, b_loaded, b_fetched,
                   b_built, b_last, reportVars, notifyVars, pureVars>>

\* token_usage_notify.main: run_report starts the daily report as a child
NotifyStart ==
    /\ fn = "none"
    /\ n_pc # "report"
    /\ r_pc \in Terminal
    /\ b_pc \in Terminal
    /\ runs < MaxRuns
    /\ runs' = runs + 1
    /\ n_pc' = "report"
    /\ n_sent' = <<>>
    /\ n_now' = 0
    /\ n_exit' = 0
    /\ r_pc' = "loop"
    /\ r_now' = today
    /\ r_idx' = 1
    /\ r_loaded' = load_existing_data(store)
    /\ r_data' = load_existing_data(store)
    /\ r_last' = NotRun
    /\ r_got' = EmptyDict
    /\ r_exit' = "none"
    /\ io_log' = <<Loaded("report")>>
    /\ BackfillForgotten
    /\ UNCHANGED <<store, envVars, pureVars>>

\* token_usage_notify.main from the return of run_report to its end
NotifyFinish ==
    /\ n_pc = "report"
    /\ r_pc \in {"done", "failed"}
    /\ LET res == notify_main(ReportProc(r_exit, r_last), load_existing_data(store), today)
       IN  /\ n_sent' = res.sent
           /\ n_exit' = res.exit
    /\ n_now' = today
    /\ n_pc' = "done"
    /\ UNCHANGED <<store, io_log, runs, envVars, reportVars, backfillVars, pureVars>>

\* midnight passes.  A run reads the clock once, when it starts, so a midnight
\* that passes during a run leaves the same state as one that passes right
\* after it: only the latter is taken.  The notifier reads the clock again
\* when its report has ended, and a midnight can pass before it does.
Tick ==
    /\ fn = "none"
    /\ today < LastDay
    /\ r_pc \in Terminal
    /\ b_pc \in Terminal
    /\ today' = today + 1
    /\ UNCHANGED <<store, io_log, runs, pricing, reportVars, backfillVars, notifyVars,
                   pureVars>>

(***************************************************************************)
(* The pure functions on their own: Init draws an input, one action        *)
(* applies the function to it.                                             *)
(***************************************************************************)
\* all sequences over S of length at most n
BoundedSeq(S, n) == UNION {[1..k -> S] : k \in 0..n}

\* all dicts with keys among K and values in V
Dicts(K, V) == UNION {[D -> V] : D \in SUBSET K}

Done(v) == [done |-> TRUE, val |-> v]

\* cost line items
ParseAtoms == {",", " ", "gpt-4", "cached", "Input", "output"}
ParseInputs == BoundedSeq(ParseAtoms, MaxLineLen)

\* cost and usage mappings handed to attach_cost_rates
RateCostEntries ==
    {WithTotal([input |-> a, output |-> 6, cached |-> c, other |-> 1]) :
        a \in {0, 6}, c \in {0, 5}}
RateUsageEntries ==
    {[NewUsageEntry("m") EXCEPT !.input_tokens = a, !.output_tokens = b,
                                !.cached_tokens = c, !.requests = 1] :
        a \in {0, 3}, b \in {0, 4}, c \in {0, 2}}
RateInputs ==
    {[costs |-> c, usage |-> u] :
        c \in Dicts({"gpt-4", "kimi-k2"}, RateCostEntries),
        u \in Dicts({"gpt-4", "kimi-k2"}, RateUsageEntries)}

\* outcomes of the session CLI while the window of day FirstDay is asked for
WindowStart == StartTs(FirstDay)
WindowEnd == EndTs(FirstDay)
MoonshotSessions ==
    { Session("kimi-k2", WindowStart + 1, 25),
      Session("moonshot/kimi-k2", (WindowStart + 1) * MsPerSec, 15),
      Session("kimi-k2", WindowEnd + 1, 30),
      Session("kimi-k2", WindowEnd * MsPerSec + 1, 35),
      Session("kimi-k2", 0, 20),
      Session("gpt-4", WindowStart + 1, 40),
      Session("null", WindowStart + 1, 10) }
MoonshotInputs ==
    {[cli |-> c, start_ts |-> WindowStart, end_ts |-> WindowEnd] :
        c \in {CliOk(ss) : ss \in BoundedSeq(MoonshotSessions, MaxSessions)}
              \cup {CliFailed(k) : k \in {"nonzero", "raises", "badjson"}}}

\* usage mappings of the two providers handed to the two merges
MergeEntries(model) ==
    {[NewUsageEntry(model) EXCEPT !.input_tokens = a, !.output_tokens = a - 1,
                                  !.cached_tokens = 1, !.requests = a - 2] :
        a \in {3, 7}}
MergeDicts(K) ==
    {d \in Dicts(K, UNION {MergeEntries(m) : m \in K}) :
        \A m \in DOMAIN d : d[m].model = m}
MergeInputs ==
    {[openai_usage |-> o, moonshot_usage |-> m] :
        o \in MergeDicts({"gpt-4", "kimi-k2"}),
        m \in MergeDicts({"kimi-k2", "kimi-k2-thinking"})}

ApplyParse ==
    /\ fn = "parse"
    /\ ~pout.done
    /\ pout' = Done(parse_line_item(pin))
    /\ UNCHANGED <<store, io_log, runs, envVars, reportVars, backfillVars, notifyVars,
                   fn, pin>>

ApplyRates ==
    /\ fn = "rates"
    /\ ~pout.done
    /\ pout' = Done(attach_cost_rates(pin.costs, pin.usage))
    /\ UNCHANGED <<store, io_log, runs, envVars, reportVars, backfillVars, notifyVars,
                   fn, pin>>

ApplyMoonshot ==
    /\ fn = "moonshot"
    /\ ~pout.done
    /\ pout' = Done(fetch_moonshot_usage(pin.cli, pin.start_ts, pin.end_ts))
    /\ UNCHANGED <<store, io_log, runs, envVars, reportVars, backfillVars, notifyVars,
                   fn, pin>>

ApplyMerge ==
    /\ fn = "merge"
    /\ ~pout.done
    /\ pout' = Done([report |-> ReportCombineUsage(pin.openai_usage, pin.moonshot_usage),
                     backfill |-> BackfillCombineUsage(pin.openai_usage,
                                                       pin.moonshot_usage)])
    /\ UNCHANGED <<store, io_log, runs, envVars, reportVars, backfillVars, notifyVars,
                   fn, pin>>

(***************************************************************************)
(* The specification                                                       *)
(***************************************************************************)
Init ==
    /\ store = EmptyDict
    /\ io_log = <<>>
    /\ today = FirstDay
    /\ pricing = PricingFile
    /\ runs = 0
    /\ r_pc = "idle"
    /\ r_data = EmptyDict
    /\ r_idx = 1
    /\ r_now = 0
    /\ r_loaded = EmptyDict
    /\ r_last = NotRun
    /\ r_got = EmptyDict
    /\ r_exit = "none"
    /\ b_pc = "idle"
    /\ b_data = EmptyDict
    /\ b_ago = 0
    /\ b_now = 0
    /\ b_loaded = EmptyDict
    /\ b_fetched = {}
    /\ b_built = {}
    /\ b_last = NotRun
    /\ b_exit = "none"
    /\ n_pc = "idle"
    /\ n_sent = <<>>
    /\ n_now = 0
    /\ n_exit = 0
    /\ pout = NotRun
    /\ \/ fn = "none" /\ pin = NotRun
       \/ fn = "parse" /\ pin \in ParseInputs
       \/ fn = "rates" /\ pin \in RateInputs
       \/ fn = "moonshot" /\ pin \in MoonshotInputs
       \/ fn = "merge" /\ pin \in MergeInputs

Next ==
    \/ ReportStart
    \/ ReportPeriod
    \/ ReportSave
    \/ BackfillStart
    \/ BackfillDay
    \/ BackfillSave
    \/ NotifyStart
    \/ NotifyFinish
    \/ Tick
    \/ ApplyParse
    \/ ApplyRates
    \/ ApplyMoonshot
    \/ ApplyMerge

Spec == Init /\ [][Next]_vars

(***************************************************************************)
(* Overlapping runs.  Nothing locks the store file: a daily report and a   *)
(* backfill started by different schedulers run side by side, each step of *)
(* one interleaved with the steps of the other.                            *)
(***************************************************************************)
\* main, up to data = load_existing_data(), while a backfill may be running
ReportStartOverlap ==
    /\ fn = "none"
    /\ r_pc = "idle"
    /\ r_pc' = "loop"
    /\ r_now' = today
    /\ r_idx' = 1
    /\ r_loaded' = load_existing_data(store)
    /\ r_data' = load_existing_data(store)
    /\ r_last' = NotRun
    /\ r_got' = EmptyDict
    /\ r_exit' = "none"
    /\ io_log' = Append(io_log, Loaded("report"))
    /\ UNCHANGED <<store, runs, envVars, backfillVars, notifyVars, pureVars>>

\* fetch_historical_data, up to now = now_utc(), while a daily report may be
\* running
BackfillStartOverlap ==
    /\ fn = "none"
    /\ b_pc = "idle"
    /\ b_pc' = "loop"
    /\ b_now' = today
    /\ b_ago' = BackfillDays - 1
    /\ b_loaded' = load_existing_data(store)
    /\ b_data' = load_existing_data(store)
    /\ b_fetched' = {}
    /\ b_built' = {}
    /\ b_last' = NotRun
    /\ b_exit' = "none"
    /\ io_log' = Append(io_log, Loaded("backfill"))
    /\ UNCHANGED <<store, runs, envVars, reportVars, notifyVars, pureVars>>

InitOverlap == Init /\ fn = "none"

NextOverlap ==
    \/ ReportStartOverlap
    \/ ReportPeriod
    \/ ReportSave
    \/ BackfillStartOverlap
    \/ BackfillDay
    \/ BackfillSave

SpecOverlap == InitOverlap /\ [][NextOverlap]_vars

(***************************************************************************)
(* Properties                                                              *)
(***************************************************************************)
\* the days a backfill started on day now walks through
BackfillWindow(now) == (now - (BackfillDays - 1))..now

\* C1: a day label that is a key of the store when the backfill loads it is
\* never fetched by that run (no OpenAI usage, OpenAI costs or Moonshot
\* call is issued for it), keeps its loaded record in memory, and has that
\* same record in the file when the run has saved.
C1_BackfillSkipsPresentDays ==
    \A d \in DOMAIN b_loaded :
        /\ d \notin b_fetched
        /\ d \in DOMAIN b_data
        /\ b_data[d] = b_loaded[d]
        /\ b_pc = "done" => d \in DOMAIN store /\ store[d] = b_loaded[d]

\* a backfill that found a day of its window in the store, fetched another
\* day, and saved
C1_Witness ==
    /\ b_pc = "done"
    /\ b_built # {}
    /\ \E d \in DOMAIN b_loaded : d \in BackfillWindow(b_now)

\* C2: no step of a daily report or of a backfill, in runs that do not
\* overlap, whether the run succeeds or fails, removes a day label from the
\* store file.
C2_StoreNeverLosesADay == [][DOMAIN store \subseteq DOMAIN store']_vars

\* a daily report that saved over a store holding a day it does not write
C2_Witness ==
    /\ r_pc = "done"
    /\ \E d \in DOMAIN r_loaded :
          /\ d \notin {PeriodDay(r_now, 1), PeriodDay(r_now, 2)}
          /\ d \in DOMAIN store

\* C3: when a backfill run has ended, every day it fetched successfully is
\* in the store file with the record built for it, also when the fetch of
\* another day failed with a primary-provider HTTP error or a missing
\* credential file.
C3_BackfillKeepsFetchedDays ==
    b_pc \in {"done", "failed"} =>
        \A d \in b_built : d \in DOMAIN store /\ store[d] = b_data[d]

\* the latest iteration of the daily report got a non-2xx answer from the
\* usage endpoint, or from the costs endpoint after a good usage answer
ReportGotHttpError ==
    /\ r_last.done
    /\ \/ r_last.sc.usage.err = "HTTPError"
       \/ r_last.sc.usage.err = "none" /\ r_last.sc.costs.err = "HTTPError"

\* C4: when an OpenAI usage or costs request of a daily report run is
\* answered with a non-2xx status, in either period, the process ends with
\* SystemExit and the store file is what it was when the run loaded it.
C4_NoPartialSave ==
    ReportGotHttpError =>
        /\ r_pc = "failed"
        /\ r_exit = "SystemExit"
        /\ store = r_loaded

\* the costs request of the today period fails after the yesterday period
\* was fetched and its record built
C4_Witness ==
    /\ ReportGotHttpError
    /\ r_last.label = bucket_label(r_now)
    /\ r_last.sc.costs.err = "HTTPError"
    /\ bucket_label(r_now - 1) \in DOMAIN r_data
    /\ r_data # r_loaded

\* the sum of input_tokens + output_tokens, and of requests, over a usage
\* mapping
RECURSIVE UsageTokens(_, _)
UsageTokens(usage, S) ==
    IF S = {} THEN 0
    ELSE LET m == CHOOSE x \in S : TRUE
         IN  usage[m].input_tokens + usage[m].output_tokens
             + UsageTokens(usage, S \ {m})

RECURSIVE UsageRequests(_, _)
UsageRequests(usage, S) ==
    IF S = {} THEN 0
    ELSE LET m == CHOOSE x \in S : TRUE
         IN  usage[m].requests + UsageRequests(usage, S \ {m})

SummaryHolds(rec) ==
    LET tokens == UsageTokens(rec.usage, DOMAIN rec.usage)
        requests == UsageRequests(rec.usage, DOMAIN rec.usage)
        avg == rec.summary.avg_tokens_per_request
    IN  /\ rec.summary.tokens = tokens
        /\ rec.summary.requests = requests
        /\ IF requests > 0
           THEN avg.kind = "num" /\ avg.den # 0 /\ avg.num * requests = tokens * avg.den
           ELSE avg = Zero

\* a record the backfill wrote (the daily report adds "providers")
FromBackfill(rec) == "providers" \notin DOMAIN rec

\* C5: every DayRecord in the store file, written by the daily report or by
\* the backfill, has summary.tokens equal to the sum of input_tokens +
\* output_tokens over its usage, summary.requests equal to the sum of
\* requests, and avg_tokens_per_request equal to tokens / requests when
\* requests > 0 and to 0 otherwise.
C5_SummaryInvariant == \A d \in DOMAIN store : SummaryHolds(store[d])

\* the store holds a backfill record whose kimi-k2 entry was merged from both
\* providers, a record without requests, and a daily report record with some
C5_Witness ==
    /\ \E d \in DOMAIN store :
          /\ FromBackfill(store[d])
          /\ "kimi-k2" \in DOMAIN store[d].usage
          /\ store[d].usage["kimi-k2"].requests = 2
    /\ \E d \in DOMAIN store : store[d].summary.requests = 0
    /\ \E d \in DOMAIN store :
          ~FromBackfill(store[d]) /\ store[d].summary.requests > 0

\* the usage field that counts the tokens of a cost metric
TokenField(metric) ==
    CASE metric = "input" -> "input_tokens"
      [] metric = "output" -> "output_tokens"
      [] metric = "cached" -> "cached_tokens"

\* the tokens of a metric of a model in a usage mapping, 0 for an absent model
TokensOf(usage, model, metric) ==
    IF model \in DOMAIN usage THEN usage[model][TokenField(metric)] ELSE 0

\* C6: attach_cost_rates never raises; for every model of the cost mapping
\* and every metric among input, output and cached, per_token[metric] is
\* None when the model has no tokens of that metric or is absent from the
\* usage mapping (never 0.0 for want of tokens), and cost / tokens otherwise.
C6_RatesNeverDivideByZero ==
    (fn = "rates" /\ pout.done) =>
        /\ pout.val.kind = "ok"
        /\ DOMAIN pout.val.val = DOMAIN pin.costs
        /\ \A m \in DOMAIN pin.costs : \A k \in {"input", "output", "cached"} :
              LET tokens == TokensOf(pin.usage, m, k)
                  r == pout.val.val[m].per_token[k]
              IN  IF tokens = 0 THEN r = None
                  ELSE /\ r.kind = "num"
                       /\ r.den # 0
                       /\ r.num * tokens = pin.costs[m][k] * r.den

\* rates were attached for a model absent from the usage mapping and for a
\* model that was billed for input but has no input tokens and some output
C6_Witness ==
    /\ fn = "rates"
    /\ pout.done
    /\ "kimi-k2" \in DOMAIN pin.costs
    /\ "kimi-k2" \notin DOMAIN pin.usage
    /\ "gpt-4" \in DOMAIN pin.costs
    /\ "gpt-4" \in DOMAIN pin.usage
    /\ pin.costs["gpt-4"].input > 0
    /\ pin.usage["gpt-4"].input_tokens = 0
    /\ pin.usage["gpt-4"].output_tokens > 0

\* a line item without a non-empty comma-separated field
Blank(line_item) == \A i \in 1..Len(line_item) : line_item[i] \in {",", " "}

\* a field holds the word in some letter case
HasWord(field, word) ==
    \E i \in 1..Len(field) :
        \/ field[i] = word
        \/ word = "cached" /\ field[i] = "Cached"
        \/ word = "input" /\ field[i] = "Input"
        \/ word = "output" /\ field[i] = "Output"

\* C7: parse_line_item returns (None, None) exactly when the line item has no
\* non-empty comma-separated field; otherwise the model is the first
\* non-empty field and the metric is decided from the second non-empty
\* field alone, without regard to letter case: cached if it holds "cached",
\* else input if it holds "input", else output if it holds "output", else
\* other; other too when there is no second field.
C7_LineItemParsing ==
    (fn = "parse" /\ pout.done) =>
        LET r == pout.val
            parts == Parts(pin)
        IN  /\ Blank(pin) <=> r = ParseNone
            /\ Blank(pin) <=> parts = <<>>
            /\ ~Blank(pin) =>
                 /\ r.model = parts[1]
                 /\ r.model # <<>>
                 /\ \A i \in 1..Len(r.model) : r.model[i] # ","
                 /\ r.model[1] # " " /\ r.model[Len(r.model)] # " "
                 /\ \E i \in 1..Len(pin) :
                       /\ SubSeq(pin, i, i + Len(r.model) - 1) = r.model
                       /\ \A j \in 1..(i - 1) : pin[j] \in {",", " "}
                 /\ r.metric =
                       IF Len(parts) < 2 THEN "other"
                       ELSE IF HasWord(parts[2], "cached") THEN "cached"
                       ELSE IF HasWord(parts[2], "input") THEN "input"
                       ELSE IF HasWord(parts[2], "output") THEN "output"
                       ELSE "other"

\* "gpt-4,cached Input" was parsed: its second field holds both words
C7_Witness ==
    /\ fn = "parse"
    /\ pout.done
    /\ pin = <<"gpt-4", ",", "cached", " ", "Input">>
    /\ pout.val = [model |-> <<"gpt-4">>, metric |-> "cached"]

\* a session of the secondary provider, as the harness names its models
OfMoonshot(session) == session.model \in {"kimi-k2", "moonshot/kimi-k2"}

\* the timestamp, taken as milliseconds when above the threshold and as
\* seconds otherwise, lies in [start_ts, end_ts]
TsInWindow(updated_at, start_ts, end_ts) ==
    IF updated_at > MsThreshold
    THEN start_ts * MsPerSec <= updated_at /\ updated_at <= end_ts * MsPerSec
    ELSE start_ts <= updated_at /\ updated_at <= end_ts

RECURSIVE SumEstimatedInput(_)
SumEstimatedInput(sessions) ==
    IF sessions = <<>> THEN 0
    ELSE estimated_input(Head(sessions).totalTokens) + SumEstimatedInput(Tail(sessions))

\* the result is what the sessions `counted` accumulate to under "kimi-k2"
ResultCounts(result, counted) ==
    IF counted = <<>> THEN result = EmptyDict
    ELSE /\ DOMAIN result = {"kimi-k2"}
         /\ result["kimi-k2"].requests = Len(counted)
         /\ result["kimi-k2"].input_tokens = SumEstimatedInput(counted)

\* the CLI listed sessions and none of them is broken
SessionsRead(input) ==
    /\ input.cli.kind = "ok"
    /\ \A i \in 1..Len(input.cli.sessions) : input.cli.sessions[i].model # "null"

\* C8: the sessions that contribute to the result are exactly the
\* Moonshot sessions whose timestamp, converted from milliseconds when above
\* the threshold, lies in the window; a session with a missing or zero
\* updatedAt is skipped.
C8_WindowFilter ==
    (fn = "moonshot" /\ pout.done /\ SessionsRead(pin)) =>
        ResultCounts(pout.val,
                     SelectSeq(pin.cli.sessions,
                               LAMBDA x : /\ OfMoonshot(x)
                                          /\ TsInWindow(x.updatedAt, pin.start_ts,
                                                        pin.end_ts)))

\* what the code does instead: the window is applied to the sessions that
\* have a timestamp only, so a Moonshot session whose updatedAt is missing or
\* zero contributes to every window.
WindowFilterOfTheCode ==
    (fn = "moonshot" /\ pout.done /\ SessionsRead(pin)) =>
        ResultCounts(pout.val,
                     SelectSeq(pin.cli.sessions,
                               LAMBDA x : /\ OfMoonshot(x)
                                          /\ \/ x.updatedAt = 0
                                             \/ TsInWindow(x.updatedAt, pin.start_ts,
                                                           pin.end_ts)))

\* a session stamped in milliseconds inside the window, one stamped outside
\* it and one without a timestamp were listed: two of them were counted
WindowFilterOfTheCode_Witness ==
    /\ fn = "moonshot"
    /\ pout.done
    /\ SessionsRead(pin)
    /\ \E i \in 1..Len(pin.cli.sessions) :
          /\ pin.cli.sessions[i].updatedAt > MsThreshold
          /\ TsInWindow(pin.cli.sessions[i].updatedAt, pin.start_ts, pin.end_ts)
    /\ \E i \in 1..Len(pin.cli.sessions) :
          /\ OfMoonshot(pin.cli.sessions[i])
          /\ pin.cli.sessions[i].updatedAt # 0
          /\ ~TsInWindow(pin.cli.sessions[i].updatedAt, pin.start_ts, pin.end_ts)
    /\ \E i \in 1..Len(pin.cli.sessions) : pin.cli.sessions[i].updatedAt = 0
    /\ pout.val["kimi-k2"].requests = 2

\* the session CLI exited non-zero, raised, timed out, wrote malformed JSON,
\* or listed a session that raises
CliFails(cli) ==
    \/ cli.kind # "ok"
    \/ \E i \in 1..Len(cli.sessions) : cli.sessions[i].model = "null"

\* C9: whenever the session CLI fails, fetch_moonshot_usage returns the empty
\* mapping, whatever was accumulated before the failure; a daily report
\* whose primary-provider calls answered then goes on, builds the record of
\* the period from the primary provider's usage alone, and, once ended, has
\* saved the records of both periods.
C9_SecondaryFailureIsNotFatal ==
    /\ (fn = "moonshot" /\ pout.done /\ CliFails(pin.cli)) => pout.val = EmptyDict
    /\ (/\ r_last.done
        /\ CliFails(r_last.sc.cli)
        /\ r_last.sc.usage.err = "none"
        /\ r_last.sc.costs.err = "none") =>
          /\ r_pc \in {"loop", "save", "done"}
          /\ r_last.label \in DOMAIN r_data
          /\ r_data[r_last.label].providers.moonshot.usage = EmptyDict
          /\ r_data[r_last.label].providers.openai.usage
                = FoldUsage(EmptyDict, r_last.sc.usage.rows)
          /\ r_data[r_last.label].usage = r_data[r_last.label].providers.openai.usage
          /\ r_pc = "done" =>
                \A i \in {1, 2} :
                    /\ bucket_label(PeriodDay(r_now, i)) \in DOMAIN store
                    /\ store[bucket_label(PeriodDay(r_now, i))]
                          = r_data[bucket_label(PeriodDay(r_now, i))]

\* a daily report ended after the CLI listed a Moonshot session of the day
\* and then a broken one: the saved record of today holds the primary usage
C9_Witness ==
    /\ r_pc = "done"
    /\ r_last.done
    /\ r_last.sc.cli.kind = "ok"
    /\ CliFails(r_last.sc.cli)
    /\ \E i \in 1..Len(r_last.sc.cli.sessions) :
          /\ OfMoonshot(r_last.sc.cli.sessions[i])
          /\ TsInWindow(r_last.sc.cli.sessions[i].updatedAt,
                        StartTs(r_now), EndTs(r_now))
    /\ "gpt-4" \in DOMAIN store[bucket_label(r_now)].usage

\* the entry of model m in the merged mapping, given the two providers'
MergedAsReport(merged, openai_usage, moonshot_usage, m) ==
    IF m \in DOMAIN moonshot_usage THEN merged[m] = moonshot_usage[m]
    ELSE merged[m] = openai_usage[m]

MergedAsBackfill(merged, openai_usage, moonshot_usage, m) ==
    IF m \in DOMAIN openai_usage /\ m \in DOMAIN moonshot_usage
    THEN /\ merged[m].input_tokens
              = openai_usage[m].input_tokens + moonshot_usage[m].input_tokens
         /\ merged[m].output_tokens
              = openai_usage[m].output_tokens + moonshot_usage[m].output_tokens
         /\ merged[m].requests = openai_usage[m].requests + moonshot_usage[m].requests
    ELSE IF m \in DOMAIN openai_usage THEN merged[m] = openai_usage[m]
    ELSE merged[m] = moonshot_usage[m]

\* the usage the two providers returned to the latest backfill iteration
BackfillOpenAI == fetch_openai_usage(b_last.sc.usage).val
BackfillMoonshot ==
    fetch_moonshot_usage(b_last.sc.cli, StartTs(b_last.label), EndTs(b_last.label))

\* C10: for a model key in both providers' usage the daily report stores the
\* secondary provider's entry unchanged, and the backfill stores an entry
\* whose input_tokens, output_tokens and requests are the sums of both
\* providers' values; for a key of one provider only, both store that
\* provider's entry.
C10_MergeAsymmetry ==
    /\ (fn = "merge" /\ pout.done) =>
          /\ DOMAIN pout.val.report = (DOMAIN pin.openai_usage) \cup (DOMAIN pin.moonshot_usage)
          /\ DOMAIN pout.val.backfill = DOMAIN pout.val.report
          /\ \A m \in DOMAIN pout.val.report :
                /\ MergedAsReport(pout.val.report, pin.openai_usage,
                                  pin.moonshot_usage, m)
                /\ MergedAsBackfill(pout.val.backfill, pin.openai_usage,
                                    pin.moonshot_usage, m)
    /\ \A d \in DOMAIN store :
          ~FromBackfill(store[d]) =>
              LET p == store[d].providers
              IN  /\ DOMAIN store[d].usage
                        = (DOMAIN p.openai.usage) \cup (DOMAIN p.moonshot.usage)
                  /\ \A m \in DOMAIN store[d].usage :
                        MergedAsReport(store[d].usage, p.openai.usage,
                                       p.moonshot.usage, m)
    /\ (b_last.done /\ b_last.label \in b_built) =>
          LET usage == b_data[b_last.label].usage
          IN  /\ DOMAIN usage = (DOMAIN BackfillOpenAI) \cup (DOMAIN BackfillMoonshot)
              /\ \A m \in DOMAIN usage :
                    MergedAsBackfill(usage, BackfillOpenAI, BackfillMoonshot, m)
              /\ b_pc = "done" => store[b_last.label].usage = usage

\* both merges were applied to mappings that share kimi-k2 and have a key of
\* their own each
C10_Witness ==
    /\ fn = "merge"
    /\ pout.done
    /\ DOMAIN pin.openai_usage = {"gpt-4", "kimi-k2"}
    /\ DOMAIN pin.moonshot_usage = {"kimi-k2", "kimi-k2-thinking"}
    /\ pout.val.report["kimi-k2"] # pout.val.backfill["kimi-k2"]

\* the record a daily report builds for a day from the answers it got
FreshRecord(day, sc) == ReportIteration(day, sc, load_moonshot_pricing(pricing)).val

\* the two labels a daily report started on day now writes
ReportLabels(now) == {bucket_label(PeriodDay(now, 1)), bucket_label(PeriodDay(now, 2))}

\* C11: after a successful run of main the store holds, under the yesterday
\* and today labels, exactly the records built from that run's fetches
\* (nothing of a record loaded for those labels survives), and under every
\* other label the record that was loaded; it holds no other label.
C11_FullReplace ==
    r_pc = "done" =>
        /\ DOMAIN store = (DOMAIN r_loaded) \cup ReportLabels(r_now)
        /\ \A i \in {1, 2} :
              LET day == PeriodDay(r_now, i)
              IN  /\ bucket_label(day) \in DOMAIN r_got
                  /\ store[bucket_label(day)] = FreshRecord(day, r_got[bucket_label(day)])
        /\ \A d \in (DOMAIN r_loaded) \ ReportLabels(r_now) : store[d] = r_loaded[d]

\* a daily report saved over a store that held an older day and, for
\* yesterday, a record with a model and fields the new record has not
C11_Witness ==
    /\ r_pc = "done"
    /\ \E d \in (DOMAIN r_loaded) \ ReportLabels(r_now) : store[d] = r_loaded[d]
    /\ LET y == bucket_label(PeriodDay(r_now, 1))
       IN  /\ y \in DOMAIN r_loaded
           /\ "kimi-k2" \in DOMAIN r_loaded[y].usage
           /\ "kimi-k2" \notin DOMAIN store[y].usage
           /\ DOMAIN store[y] # DOMAIN r_loaded[y]

\* the notifier has ended and the report it ran exited non-zero
NotifiedFailure == n_pc = "done" /\ r_exit # "ok"

\* C12: a notifier whose report exited non-zero sends exactly one message,
\* which carries the report's stderr and is not the usage summary, and exits
\* with the report's non-zero code; a notifier whose report exited zero
\* sends exactly one message, the one build_message gives for the store as
\* the report wrote it; no message is sent before the report has ended.
C12_NotifierPropagatesFailure ==
    /\ n_pc = "report" => n_sent = <<>>
    /\ NotifiedFailure =>
          /\ r_pc = "failed"
          /\ Len(n_sent) = 1
          /\ n_sent[1].kind = "failed"
          /\ n_sent[1].text = ReportProc(r_exit, r_last).stderr
          /\ n_sent[1].text # ""
          /\ n_exit = ReportProc(r_exit, r_last).returncode
          /\ n_exit # 0
    /\ (n_pc = "done" /\ r_exit = "ok") =>
          /\ store = r_data
          /\ Len(n_sent) = 1
          /\ n_sent[1].kind \in {"summary", "unavailable"}
          /\ Ok(n_sent[1]) = build_message(store, n_now)
          /\ n_sent[1].kind = "summary" <=> n_now = r_now
          /\ n_exit = 0

\* the report of a notifier failed in its second period on an HTTP error of
\* the costs endpoint, and the notifier has ended
C12_Witness ==
    /\ NotifiedFailure
    /\ r_last.label = bucket_label(r_now)
    /\ r_last.sc.costs.err = "HTTPError"
    /\ n_sent = <<FailureMessage("OpenAI Costs API error")>>
    /\ n_exit = 1

\* a notifier whose report succeeded has sent the summary of both days
NotifiedSummary ==
    /\ n_pc = "done"
    /\ r_exit = "ok"
    /\ n_sent[1].kind = "summary"
    /\ n_sent[1].today.openai_models = {"gpt-4"}

\* the "models" mapping of the pricing config as loaded
PricingTable == Get(load_moonshot_pricing(pricing), "models", EmptyDict)

\* the price of a kind of token of a priced model, 0 when it has none
PriceOf(m, kind) == Get(Get(PricingTable[m], "pricing", EmptyDict), kind, 0)

\* the cost entry of m is its secondary usage times the prices
Reconciled(costs, usage, m) ==
    /\ m \in DOMAIN costs
    /\ costs[m].input = usage[m].input_tokens * PriceOf(m, "input")
    /\ costs[m].output = usage[m].output_tokens * PriceOf(m, "output")
    /\ costs[m].cached = usage[m].cached_tokens * PriceOf(m, "cached")
    /\ costs[m].total = costs[m].input + costs[m].output + costs[m].cached

\* the records of the daily report in the store reconcile
ReportCostsReconcile ==
    \A d \in DOMAIN store :
        ~FromBackfill(store[d]) =>
            LET usage == store[d].providers.moonshot.usage
            IN  \A m \in (DOMAIN PricingTable) \cap (DOMAIN usage) :
                    Reconciled(store[d].costs, usage, m)

\* C13: in every DayRecord written by the daily report or by the backfill,
\* each model that is both in the "models" mapping of the pricing config
\* and in the secondary usage mapping has cost input = input_tokens *
\* price.input, output = output_tokens * price.output, cached =
\* cached_tokens * price.cached (a missing price counting as 0) and total
\* equal to their sum.
C13_MoonshotCostsReconcile ==
    /\ ReportCostsReconcile
    /\ (b_pc = "done" /\ b_last.done /\ b_last.label \in b_built) =>
          \A m \in (DOMAIN PricingTable) \cap (DOMAIN BackfillMoonshot) :
              Reconciled(store[b_last.label].costs, BackfillMoonshot, m)

\* the store holds a daily report record with a priced secondary model
ReportCostsReconcile_Witness ==
    \E d \in DOMAIN store :
        /\ ~FromBackfill(store[d])
        /\ "kimi-k2" \in DOMAIN store[d].providers.moonshot.usage
        /\ store[d].costs["kimi-k2"].input > 0

\* format_day_report renders the record, as today's and as another day's
Renders(rec, now) ==
    /\ format_day_report("Today", rec, now, TRUE).kind = "ok"
    /\ format_day_report("Yesterday", rec, now, FALSE).kind = "ok"

\* the records of the daily report in the store render
ReportRecordsRender ==
    \A d \in DOMAIN store : ~FromBackfill(store[d]) => Renders(store[d], today)

\* C15: every DayRecord in the store, after any sequence of daily report
\* and backfill runs, is rendered by format_day_report without error (the
\* summary fields it reads are there); a backfill record with requests > 0
\* renders as a daily report record does.
C15_EveryRecordRenders == \A d \in DOMAIN store : Renders(store[d], today)

\* the store holds a daily report record with requests, and it renders
ReportRecordsRender_Witness ==
    \E d \in DOMAIN store :
        /\ ~FromBackfill(store[d])
        /\ store[d].summary.requests > 0
        /\ Renders(store[d], today)

\* both runs read the store file before either wrote it
BothLoadedBeforeAnySave ==
    /\ \E i \in 1..Len(io_log) : io_log[i] = Loaded("report")
    /\ \E i \in 1..Len(io_log) : io_log[i] = Loaded("backfill")
    /\ \A i, j \in 1..Len(io_log) :
          (io_log[i].op = "load" /\ io_log[j].op = "save") => i < j

\* both runs have written the store file
BothSaved == r_pc = "done" /\ b_pc = "done"

\* the in-memory data of the run that wrote last, and of the other run
LastSaverData == IF io_log[Len(io_log)].by = "report" THEN r_data ELSE b_data
FirstSaverData == IF io_log[Len(io_log)].by = "report" THEN b_data ELSE r_data

\* C14: when a daily report and a backfill overlap so that both load the
\* store before either saves, and both have saved, the store file is exactly
\* the in-memory data of the run that saved last; a day label that only the
\* earlier saver wrote is not in the file.
C14_LastWriterWins ==
    (BothSaved /\ BothLoadedBeforeAnySave) =>
        /\ store = LastSaverData
        /\ \A d \in (DOMAIN FirstSaverData) \ (DOMAIN LastSaverData) :
              d \notin DOMAIN store

\* the backfill saved a day the daily report does not write, then the daily
\* report saved: the day is gone from the file
C14_Witness ==
    /\ BothSaved
    /\ BothLoadedBeforeAnySave
    /\ io_log[Len(io_log)] = Saved("report")
    /\ \E d \in b_built : d \notin DOMAIN r_data /\ d \notin DOMAIN store
    /\ store # EmptyDict
====
